---- MODULE Spec2Model ----
(***************************************************************************)
(* Model of proseq.py: extraction of residue sequences from a PDB file     *)
(* (parse_pdb_sequence), their formatting (format_sequence), the writer    *)
(* (write_output) and the driver (main).                                   *)
(*                                                                         *)
(* A Python str is a sequence of one-character strings, a tuple a TLA+     *)
(* tuple, a list a sequence, a set a set.  A dict whose iteration order    *)
(* the code can observe (sequences) is the sequence of its                 *)
(* <<key, value>> items in insertion order.                                *)
(***************************************************************************)
EXTENDS Integers, Sequences, FiniteSets, TLC

\* Longest input file, in lines.
MaxLines == 3

----------------------------------------------------------------------------
(* Characters and strings *)

\* The capital letters, code points 65 to 90, in code order.
Upper ==
  << "A", "B", "C", "D", "E", "F", "G", "H", "I", "J", "K", "L", "M", "N",
     "O", "P", "Q", "R", "S", "T", "U", "V", "W", "X", "Y", "Z" >>

\* The small letters, code points 97 to 122, in code order.
Lower ==
  << "a", "b", "c", "d", "e", "f", "g", "h", "i", "j", "k", "l", "m", "n",
     "o", "p", "q", "r", "s", "t", "u", "v", "w", "x", "y", "z" >>

Digits == <<"0", "1", "2", "3", "4", "5", "6", "7", "8", "9">>

IndexIn(c, alphabet) == CHOOSE i \in 1..Len(alphabet) : alphabet[i] = c

IsIn(c, alphabet) == \E i \in 1..Len(alphabet) : alphabet[i] = c

\* ord(c): the code point of a character of the inputs' alphabet.
Ord(c) ==
  CASE c = "\n" -> 10
    [] c = " " -> 32
    [] c = "+" -> 43
    [] c = "-" -> 45
    [] IsIn(c, Digits) -> 47 + IndexIn(c, Digits)
    [] IsIn(c, Upper) -> 64 + IndexIn(c, Upper)
    [] c = "_" -> 95
    [] IsIn(c, Lower) -> 96 + IndexIn(c, Lower)

\* str.isspace() of one character, as str.strip() uses it.
IsSpace(c) == c \in {" ", "\t", "\n", "\f", "\r"}

IsDigit(c) == IsIn(c, Digits)

DigitValue(c) == IndexIn(c, Digits) - 1

Min(a, b) == IF a < b THEN a ELSE b

\* s[a:b] with 0 <= a <= b: a slice never raises, it is cut at the end of s.
Slice(s, a, b) == SubSeq(s, a + 1, Min(b, Len(s)))

\* s.startswith(p)
StartsWith(s, p) == Len(s) >= Len(p) /\ SubSeq(s, 1, Len(p)) = p

\* s.strip(): without its leading and trailing whitespace.
Strip(s) ==
  LET keep == {i \in 1..Len(s) : ~IsSpace(s[i])}
  IN  IF keep = {} THEN <<>>
      ELSE LET lo == CHOOSE i \in keep : \A j \in keep : i <= j
               hi == CHOOSE i \in keep : \A j \in keep : j <= i
           IN  SubSeq(s, lo, hi)

\* a < b for two str: lexicographic by code point.
StrLess(a, b) ==
  \/ Len(a) < Len(b) /\ \A k \in 1..Len(a) : a[k] = b[k]
  \/ \E i \in 1..Min(Len(a), Len(b)) :
        /\ \A k \in 1..(i - 1) : a[k] = b[k]
        /\ Ord(a[i]) < Ord(b[i])

\* x < y for two (int, str) tuples.
TupleLess(x, y) == x[1] < y[1] \/ (x[1] = y[1] /\ StrLess(x[2], y[2]))

RECURSIVE Join(_, _)
\* sep.join(tokens)
Join(tokens, sep) ==
  IF tokens = <<>> THEN <<>>
  ELSE IF Len(tokens) = 1 THEN tokens[1]
  ELSE tokens[1] \o sep \o Join(Tail(tokens), sep)

----------------------------------------------------------------------------
(* int(str) *)

\* The digits and underscores after an optional sign.
Unsigned(s) == IF s # <<>> /\ s[1] \in {"+", "-"} THEN Tail(s) ELSE s

\* Whether int(s) succeeds for a stripped s: an optional sign, then digits
\* with single underscores between them; anything else raises ValueError.
IsIntLiteral(s) ==
  LET u == Unsigned(s)
  IN  /\ u # <<>>
      /\ \A i \in 1..Len(u) : IsDigit(u[i]) \/ u[i] = "_"
      /\ IsDigit(u[1]) /\ IsDigit(u[Len(u)])
      /\ \A i \in 1..(Len(u) - 1) : ~(u[i] = "_" /\ u[i + 1] = "_")

RECURSIVE DigitsValue(_)
DigitsValue(u) ==
  IF u = <<>> THEN 0
  ELSE LET front == SubSeq(u, 1, Len(u) - 1)
           last == u[Len(u)]
       IN  IF last = "_" THEN DigitsValue(front)
           ELSE 10 * DigitsValue(front) + DigitValue(last)

\* int(s) for an s that IsIntLiteral accepts.
IntValue(s) ==
  IF s[1] = "-" THEN 0 - DigitsValue(Unsigned(s)) ELSE DigitsValue(Unsigned(s))

----------------------------------------------------------------------------
(* dict and list *)

\* list(d.keys()): the keys in insertion order.
Keys(d) == [i \in 1..Len(d) |-> d[i][1]]

\* k in d
HasKey(d, k) == \E i \in 1..Len(d) : d[i][1] = k

\* d[k] for a key the dict holds.
Get(d, k) == d[CHOOSE i \in 1..Len(d) : d[i][1] = k][2]

\* d[k] = v: a new key goes to the end, a known key keeps its place.
Put(d, k, v) ==
  IF HasKey(d, k)
  THEN [i \in 1..Len(d) |-> IF d[i][1] = k THEN <<k, v>> ELSE d[i]]
  ELSE Append(d, <<k, v>>)

\* Reading d[k] of a defaultdict: a missing key is inserted with the default.
Touch(d, k, default) == IF HasKey(d, k) THEN d ELSE Append(d, <<k, default>>)

\* One step of the sort of a list of tuples: x goes behind the elements of
\* the sorted list s that are not greater than it, so equal elements keep
\* their order.
InsertTuple(x, s) ==
  LET n == Cardinality({i \in 1..Len(s) : ~TupleLess(x, s[i])})
  IN  SubSeq(s, 1, n) \o <<x>> \o SubSeq(s, n + 1, Len(s))

\* The same step for a list of str.
InsertStr(x, s) ==
  LET n == Cardinality({i \in 1..Len(s) : ~StrLess(x, s[i])})
  IN  SubSeq(s, 1, n) \o <<x>> \o SubSeq(s, n + 1, Len(s))

RECURSIVE ListSort(_)
\* list.sort() of a list of (int, str) tuples: ascending and stable.
ListSort(l) ==
  IF l = <<>> THEN <<>>
  ELSE InsertTuple(l[Len(l)], ListSort(SubSeq(l, 1, Len(l) - 1)))

RECURSIVE Sorted(_)
\* sorted(l) of a list of str.
Sorted(l) ==
  IF l = <<>> THEN <<>>
  ELSE InsertStr(l[Len(l)], Sorted(SubSeq(l, 1, Len(l) - 1)))

RECURSIVE SetToSeq(_)
\* list(s) of a set: its elements in some order.
SetToSeq(s) ==
  IF s = {} THEN <<>>
  ELSE LET x == CHOOSE x \in s : TRUE IN <<x>> \o SetToSeq(s \ {x})

----------------------------------------------------------------------------
(* The residue code table *)

THREE_TO_ONE ==
  << << <<"A", "L", "A">>, <<"A">> >>, << <<"A", "R", "G">>, <<"R">> >>,
     << <<"A", "S", "N">>, <<"N">> >>, << <<"A", "S", "P">>, <<"D">> >>,
     << <<"C", "Y", "S">>, <<"C">> >>, << <<"G", "L", "U">>, <<"E">> >>,
     << <<"G", "L", "N">>, <<"Q">> >>, << <<"G", "L", "Y">>, <<"G">> >>,
     << <<"H", "I", "S">>, <<"H">> >>, << <<"I", "L", "E">>, <<"I">> >>,
     << <<"L", "E", "U">>, <<"L">> >>, << <<"L", "Y", "S">>, <<"K">> >>,
     << <<"M", "E", "T">>, <<"M">> >>, << <<"P", "H", "E">>, <<"F">> >>,
     << <<"P", "R", "O">>, <<"P">> >>, << <<"S", "E", "R">>, <<"S">> >>,
     << <<"T", "H", "R">>, <<"T">> >>, << <<"T", "R", "P">>, <<"W">> >>,
     << <<"T", "Y", "R">>, <<"Y">> >>, << <<"V", "A", "L">>, <<"V">> >> >>

----------------------------------------------------------------------------
(* parse_pdb_sequence *)

ATOM == <<"A", "T", "O", "M">>

\* A line of standard error or standard output.
Message(kind, text, error) == [kind |-> kind, text |-> text, error |-> error]

\* DefaultChain without the substitution of the default chain.
DefaultChain_Kept(chain_id) == chain_id

\* if not chain_id: chain_id = 'A'
DefaultChain(chain_id) == IF chain_id = <<>> THEN <<"A">> ELSE chain_id

\* SkipLine as if the loop body had read sequences[chain_id] before int().
SkipLine_Touched(st, line, error) ==
  [st EXCEPT
     !.stderr = Append(@, Message("skipped", Strip(line), error)),
     !.sequences = IF error = "ValueError"
                   THEN Touch(@, Strip(<<line[22]>>), <<>>) ELSE @]

\* The except branch of the loop body: a warning, and on to the next line.
SkipLine(st, line, error) ==
  [st EXCEPT !.stderr = Append(@, Message("skipped", Strip(line), error))]

\* AddResidue as if a later line of a residue replaced the earlier one.
AddResidue_LastWins(st, chain_id, res_seq_num, res_name) ==
  LET seen == Touch(st.seen_residues, chain_id, {})
      seqs == Touch(st.sequences, chain_id, <<>>)
      old == Get(seqs, chain_id)
  IN  [st EXCEPT
         !.sequences =
            Put(seqs, chain_id,
                IF res_seq_num \in Get(seen, chain_id)
                THEN [i \in 1..Len(old) |->
                        IF old[i][1] = res_seq_num
                        THEN <<res_seq_num, res_name>> ELSE old[i]]
                ELSE Append(old, <<res_seq_num, res_name>>)),
         !.seen_residues =
            Put(seen, chain_id, Get(seen, chain_id) \cup {res_seq_num})]

\* AddResidue as if the residue number were never added to the seen set.
AddResidue_NotMarked(st, chain_id, res_seq_num, res_name) ==
  LET seen == Touch(st.seen_residues, chain_id, {})
      seqs == Touch(st.sequences, chain_id, <<>>)
  IN  IF res_seq_num \notin Get(seen, chain_id)
      THEN [st EXCEPT
              !.sequences =
                 Put(seqs, chain_id,
                     Append(Get(seqs, chain_id), <<res_seq_num, res_name>>)),
              !.seen_residues = seen]
      ELSE [st EXCEPT !.seen_residues = seen]

\* if unique_res_id not in seen_residues[chain_id]: append and add.
AddResidue(st, chain_id, res_seq_num, res_name) ==
  LET seen == Touch(st.seen_residues, chain_id, {})
  IN  IF res_seq_num \notin Get(seen, chain_id)
      THEN LET seqs == Touch(st.sequences, chain_id, <<>>)
           IN  [st EXCEPT
                  !.sequences =
                     Put(seqs, chain_id,
                         Append(Get(seqs, chain_id), <<res_seq_num, res_name>>)),
                  !.seen_residues =
                     Put(seen, chain_id, Get(seen, chain_id) \cup {res_seq_num})]
      ELSE [st EXCEPT !.seen_residues = seen]

\* The body of the loop over the lines of the file.
ProcessLine(st, line) ==
  IF ~StartsWith(line, ATOM) THEN st
  ELSE IF Len(line) <= 21 THEN SkipLine(st, line, "IndexError")
  ELSE LET res_name == Strip(Slice(line, 17, 20))
           chain_id == DefaultChain(Strip(<<line[22]>>))
           res_seq_num_str == Strip(Slice(line, 22, 26))
       IN  IF ~IsIntLiteral(res_seq_num_str)
           THEN SkipLine(st, line, "ValueError")
           ELSE AddResidue(st, chain_id, IntValue(res_seq_num_str), res_name)

\* SortChains without the sort.
SortChains_Unsorted(d) == d

\* for chain_id in sequences: sequences[chain_id].sort()
SortChains(d) == [i \in 1..Len(d) |-> <<d[i][1], ListSort(d[i][2])>>]

RECURSIVE ReadAll(_, _)
\* The loop over all the lines of a file.
ReadAll(st, lines) ==
  IF lines = <<>> THEN st ELSE ReadAll(ProcessLine(st, lines[1]), Tail(lines))

\* The dict parse_pdb_sequence returns for a file it can read.
parse_pdb_sequence(lines) ==
  SortChains(ReadAll([sequences |-> <<>>, seen_residues |-> <<>>,
                      stderr |-> <<>>], lines).sequences)

\* What main holds of parse_pdb_sequence's result: None, or the dict.
None == [is_none |-> TRUE, dict |-> <<>>]

Some(d) == [is_none |-> FALSE, dict |-> d]

----------------------------------------------------------------------------
(* format_sequence *)

\* ChainOrder as if the chains were taken in the dict's own order.
ChainOrder_Insertion(sequences) == Keys(sequences)

\* sorted(sequences.keys())
ChainOrder(sequences) == Sorted(Keys(sequences))

RECURSIVE Extend(_, _, _)
\* The loop of full_sequence_list.extend(chain_seq) over the chains.
Extend(full, sequences, chains) ==
  IF chains = <<>> THEN full
  ELSE LET records == Get(sequences, chains[1])
           chain_seq == [i \in 1..Len(records) |-> records[i][2]]
       IN  Extend(full \o chain_seq, sequences, Tail(chains))

\* full_sequence_list: the residue names of all chains.
FullSequenceList(sequences) == Extend(<<>>, sequences, ChainOrder(sequences))

\* OneLetterCode as if a name outside the table were cut to its first letter.
OneLetterCode_Initial(res_name) ==
  IF HasKey(THREE_TO_ONE, res_name) THEN Get(THREE_TO_ONE, res_name)
  ELSE SubSeq(res_name, 1, 1)

\* THREE_TO_ONE.get(res_name, 'X')
OneLetterCode(res_name) ==
  IF HasKey(THREE_TO_ONE, res_name) THEN Get(THREE_TO_ONE, res_name) ELSE <<"X">>

\* formatted_residues
FormattedResidues(full, code_format) ==
  IF code_format = "one-letter"
  THEN [i \in 1..Len(full) |-> OneLetterCode(full[i])]
  ELSE full

\* unknown_residues once the loop over full_sequence_list is over.
UnknownResidues(full, code_format) ==
  IF code_format = "one-letter"
  THEN {full[i] : i \in {j \in 1..Len(full) :
           OneLetterCode(full[j]) = <<"X">> /\ ~HasKey(THREE_TO_ONE, full[j])}}
  ELSE {}

\* separator
Separator(code_format) == IF code_format = "one-letter" THEN <<>> ELSE <<" ">>

\* if unknown_residues: print(..., file=sys.stderr)
UnknownWarning(unknown) ==
  IF unknown # {}
  THEN <<Message("unknown", Join(Sorted(SetToSeq(unknown)), <<",", " ">>), "")>>
  ELSE <<>>

\* JoinStyle as if the code format's separator were used for both styles.
JoinStyle_OneSeparator(formatted_residues, separator, output_style) ==
  Join(formatted_residues, separator)

\* The return statements for the two output styles.
JoinStyle(formatted_residues, separator, output_style) ==
  IF output_style = "single-line"
  THEN Join(formatted_residues, separator)
  ELSE Join(formatted_residues, <<"\n">>)

\* The returned str, and what the call printed to standard error.
format_sequence(sequences, code_format, output_style) ==
  LET full == FullSequenceList(sequences)
  IN  IF full = <<>> THEN [result |-> <<>>, stderr |-> <<>>]
      ELSE [result |-> JoinStyle(FormattedResidues(full, code_format),
                                 Separator(code_format), output_style),
            stderr |-> UnknownWarning(UnknownResidues(full, code_format))]

----------------------------------------------------------------------------
(* write_output *)

\* Written without the newline.
Written_Bare(content) == content

\* outfile.write(content + "\n")
Written(content) == content \o <<"\n">>

\* A file of the file system: whether it exists, and its content.
File(exists, content) == [exists |-> exists, content |-> content]

----------------------------------------------------------------------------
(* The input files *)

\* Columns 1-17 of an ATOM record: record name, serial, atom name, alt loc.
AtomHead ==
  <<"A", "T", "O", "M", " ", " ", " ", " ", " ", " ", "1", " ", " ",
    "C", "A", " ", " ">>

\* Columns 1-17 of a HETATM record.
HetatmHead ==
  <<"H", "E", "T", "A", "T", "M", " ", " ", " ", " ", "1", " ", " ",
    "C", "A", " ", " ">>

\* A record line: residue name in columns 18-20, chain in 22, number in 23-26.
Record(head, res_name, chain_id, res_seq) ==
  head \o res_name \o <<" ">> \o chain_id \o res_seq \o <<" ", "\n">>

ALA == <<"A", "L", "A">>

GLY == <<"G", "L", "Y">>

SER == <<"S", "E", "R">>

UNK == <<"U", "N", "K">>

\* Well-formed ATOM lines: chain A residues 5 and 10, chain B residue 1.
Line_ALA_A_5 == Record(AtomHead, ALA, <<"A">>, <<" ", " ", " ", "5">>)

Line_GLY_A_10 == Record(AtomHead, GLY, <<"A">>, <<" ", " ", "1", "0">>)

Line_SER_B_1 == Record(AtomHead, SER, <<"B">>, <<" ", " ", " ", "1">>)

\* A second line for residue 5 of chain A, with another residue name.
Line_UNK_A_5 == Record(AtomHead, UNK, <<"A">>, <<" ", " ", " ", "5">>)

\* A blank chain column and a negative residue number.
Line_UNK_blank_m3 == Record(AtomHead, UNK, <<" ">>, <<" ", " ", "-", "3">>)

\* A blank residue name, on chain a.
Line_blank_a_2 == Record(AtomHead, <<" ", " ", " ">>, <<"a">>, <<" ", " ", " ", "2">>)

\* Malformed ATOM lines: a number that is none, an empty number field, and
\* a line that ends before the chain column.  No other line names chain C.
Line_ALA_C_1A == Record(AtomHead, ALA, <<"C">>, <<" ", " ", "1", "A">>)

Line_ALA_C_empty == Record(AtomHead, ALA, <<"C">>, <<" ", " ", " ", " ">>)

Line_short == <<"A", "T", "O", "M", " ", " ", "1", "2", "\n">>

\* A line that is no ATOM record.
Line_HETATM == Record(HetatmHead, <<"H", "O", "H">>, <<"A">>, <<" ", " ", " ", "7">>)

\* The lines an input file is made of.
Lines ==
  { Line_ALA_A_5, Line_GLY_A_10, Line_SER_B_1, Line_UNK_A_5, Line_UNK_blank_m3,
    Line_blank_a_2, Line_ALA_C_1A, Line_ALA_C_empty, Line_short, Line_HETATM }

\* What the target path holds before the run.
OldTarget == File(TRUE, <<"o", "l", "d", "\n">>)

----------------------------------------------------------------------------
(* main *)

VARIABLES
  pc,               \* where main is
  code_format,      \* args.format
  output_style,     \* args.output_style
  consumed,         \* the lines of the source file read so far
  sequences,        \* parse_pdb_sequence's dict of lists
  seen_residues,    \* parse_pdb_sequence's dict of sets
  sequences_data,   \* main's sequences_data
  formatted_output, \* main's formatted_output
  target_file,      \* the file at args.target
  stdout,           \* what was printed to standard output
  stderr,           \* what was printed to standard error
  exit_code,        \* the status of the process when it ends
  called            \* the functions called so far

vars ==
  <<pc, code_format, output_style, consumed, sequences, seen_residues,
    sequences_data, formatted_output, target_file, stdout, stderr, exit_code,
    called>>

Init ==
  /\ pc = "main"
  /\ code_format \in {"one-letter", "three-letter"}
  /\ output_style \in {"single-line", "multi-line"}
  /\ consumed = <<>>
  /\ sequences = <<>>
  /\ seen_residues = <<>>
  /\ sequences_data = None
  /\ formatted_output = <<>>
  /\ target_file \in {File(FALSE, <<>>), OldTarget}
  /\ stdout = <<>>
  /\ stderr = <<>>
  /\ exit_code = 0
  /\ called = {}

\* main up to the call of parse_pdb_sequence, and the open() in it succeeding.
OpenSource ==
  /\ pc = "main"
  /\ pc' = "reading"
  /\ stdout' = stdout \o <<Message("process", <<>>, ""), Message("options", <<>>, "")>>
  /\ called' = called \cup {"parse_pdb_sequence"}
  /\ UNCHANGED <<code_format, output_style, consumed, sequences, seen_residues,
                 sequences_data, formatted_output, target_file, stderr, exit_code>>

\* main up to the call of parse_pdb_sequence, and open() raising
\* FileNotFoundError (not_found) or another exception.
OpenFails ==
  /\ pc = "main"
  /\ pc' = "parsed"
  /\ stdout' = stdout \o <<Message("process", <<>>, ""), Message("options", <<>>, "")>>
  /\ called' = called \cup {"parse_pdb_sequence"}
  /\ \E kind \in {"not_found", "read_error"} :
        stderr' = Append(stderr, Message(kind, <<>>, ""))
  /\ sequences_data' = None
  /\ UNCHANGED <<code_format, output_style, consumed, sequences, seen_residues,
                 formatted_output, target_file, exit_code>>

\* One turn of the loop over the lines of the file.
ReadLine ==
  /\ pc = "reading"
  /\ Len(consumed) < MaxLines
  /\ \E line \in Lines :
        LET st == ProcessLine([sequences |-> sequences,
                               seen_residues |-> seen_residues,
                               stderr |-> stderr], line)
        IN  /\ consumed' = Append(consumed, line)
            /\ sequences' = st.sequences
            /\ seen_residues' = st.seen_residues
            /\ stderr' = st.stderr
  /\ UNCHANGED <<pc, code_format, output_style, sequences_data, formatted_output,
                 target_file, stdout, exit_code, called>>

\* Reading the file raises (no FileNotFoundError any more): return None.
ReadFails ==
  /\ pc = "reading"
  /\ pc' = "parsed"
  /\ stderr' = Append(stderr, Message("read_error", <<>>, ""))
  /\ sequences_data' = None
  /\ UNCHANGED <<code_format, output_style, consumed, sequences, seen_residues,
                 formatted_output, target_file, stdout, exit_code, called>>

\* The file is read to its end: sort every chain and return the dict.
EndOfFile ==
  /\ pc = "reading"
  /\ pc' = "parsed"
  /\ sequences' = SortChains(sequences)
  /\ sequences_data' = Some(sequences')
  /\ UNCHANGED <<code_format, output_style, consumed, seen_residues,
                 formatted_output, target_file, stdout, stderr, exit_code, called>>

\* ExitOnNone as if main went on with an empty output instead of exiting.
ExitOnNone_GoesOn ==
  /\ pc = "parsed"
  /\ sequences_data.is_none
  /\ pc' = "formatted"
  /\ formatted_output' = <<>>
  /\ UNCHANGED <<code_format, output_style, consumed, sequences, seen_residues,
                 sequences_data, target_file, stdout, stderr, exit_code, called>>

\* if sequences_data is None: sys.exit(1)
ExitOnNone ==
  /\ pc = "parsed"
  /\ sequences_data.is_none
  /\ pc' = "done"
  /\ exit_code' = 1
  /\ UNCHANGED <<code_format, output_style, consumed, sequences, seen_residues,
                 sequences_data, formatted_output, target_file, stdout, stderr,
                 called>>

\* if not sequences_data: the warning, and formatted_output = ""
EmptyData ==
  /\ pc = "parsed"
  /\ ~sequences_data.is_none
  /\ sequences_data.dict = <<>>
  /\ pc' = "formatted"
  /\ stderr' = Append(stderr, Message("no_atoms", <<>>, ""))
  /\ formatted_output' = <<>>
  /\ UNCHANGED <<code_format, output_style, consumed, sequences, seen_residues,
                 sequences_data, target_file, stdout, exit_code, called>>

\* else: formatted_output = format_sequence(...)
Format ==
  /\ pc = "parsed"
  /\ ~sequences_data.is_none
  /\ sequences_data.dict # <<>>
  /\ pc' = "formatted"
  /\ called' = called \cup {"format_sequence"}
  /\ LET r == format_sequence(sequences_data.dict, code_format, output_style)
     IN  /\ formatted_output' = r.result
         /\ stderr' = stderr \o r.stderr
  /\ UNCHANGED <<code_format, output_style, consumed, sequences, seen_residues,
                 sequences_data, target_file, stdout, exit_code>>

\* write_output returns True; main prints the success line and ends.
WriteOk ==
  /\ pc = "formatted"
  /\ pc' = "done"
  /\ called' = called \cup {"write_output"}
  /\ target_file' = File(TRUE, Written(formatted_output))
  /\ stdout' = Append(stdout, Message("success", <<>>, ""))
  /\ UNCHANGED <<code_format, output_style, consumed, sequences, seen_residues,
                 sequences_data, formatted_output, stderr, exit_code>>

\* write_output returns False: open() raised and the target is as it was, or
\* write() raised and the target holds what was flushed; main exits with 1.
WriteFails ==
  /\ pc = "formatted"
  /\ pc' = "done"
  /\ called' = called \cup {"write_output"}
  /\ \/ target_file' = target_file
     \/ \E n \in 0..Len(Written(formatted_output)) :
           target_file' = File(TRUE, SubSeq(Written(formatted_output), 1, n))
  /\ stderr' = Append(stderr, Message("write_error", <<>>, ""))
  /\ exit_code' = 1
  /\ UNCHANGED <<code_format, output_style, consumed, sequences, seen_residues,
                 sequences_data, formatted_output, stdout>>

Next ==
  \/ OpenSource
  \/ OpenFails
  \/ ReadLine
  \/ ReadFails
  \/ EndOfFile
  \/ ExitOnNone
  \/ EmptyData
  \/ Format
  \/ WriteOk
  \/ WriteFails

Spec == Init /\ [][Next]_vars

----------------------------------------------------------------------------
(* The PDB columns as the specification names them (1-indexed) *)

\* The line begins with the atom-record marker.
IsAtomLine(line) == Len(line) >= 4 /\ \A i \in 1..4 : line[i] = ATOM[i]

\* Columns a to b of a line, as far as the line reaches.
Columns(line, a, b) == [i \in 1..(Min(b, Len(line)) - a + 1) |-> line[a + i - 1]]

\* An ATOM line that is too short to hold the chain column, or whose
\* sequence-number field is empty or no integer.
Malformed(line) ==
  /\ IsAtomLine(line)
  /\ \/ Len(line) < 22
     \/ ~IsIntLiteral(Strip(Columns(line, 23, 26)))

\* An ATOM line that is accepted as a residue record.
WellFormed(line) == IsAtomLine(line) /\ ~Malformed(line)

\* The chain of a line, a blank column standing for chain A.
ChainOn(line) == IF line[22] = " " THEN <<"A">> ELSE <<line[22]>>

NumberOn(line) == IntValue(Strip(Columns(line, 23, 26)))

NameOn(line) == Strip(Columns(line, 18, 20))

\* parse_pdb_sequence has returned a Document.
Returned == pc \in {"parsed", "formatted", "done"} /\ ~sequences_data.is_none

Document == sequences_data.dict

\* The positions of the ATOM lines, and of the malformed and the accepted
\* ones among them, in the lines read so far.
AtomAt == {i \in 1..Len(consumed) : IsAtomLine(consumed[i])}

MalformedAt == {i \in 1..Len(consumed) : Malformed(consumed[i])}

WellFormedAt == {i \in 1..Len(consumed) : WellFormed(consumed[i])}

\* The lines read so far without the malformed ATOM lines.
WithoutMalformed == SelectSeq(consumed, LAMBDA line : ~Malformed(line))

\* The sequence numbers of a chain's list.
Numbers(records) == {records[j][1] : j \in 1..Len(records)}

----------------------------------------------------------------------------
(* The claims *)

\* C1: in the returned Document every chain's list is strictly increasing in
\* the sequence number, so no number occurs twice in a chain.
C1_StrictlyIncreasing ==
  Returned =>
    \A i \in 1..Len(Document) :
      \A j \in 1..(Len(Document[i][2]) - 1) :
        Document[i][2][j][1] < Document[i][2][j + 1][1]

\* Residue 5 of chain A on two lines, both after residue 10.
C1_Witness ==
  /\ Returned
  /\ consumed = <<Line_GLY_A_10, Line_UNK_A_5, Line_ALA_A_5>>
  /\ Document = << <<<<"A">>, << <<5, UNK>>, <<10, GLY>> >> >> >>

AcceptedRecords ==
  LET accepted == SelectSeq(consumed, WellFormed)
  IN  [i \in 1..Len(accepted) |->
         [chain |-> ChainOn(accepted[i]), number |-> NumberOn(accepted[i]),
          name |-> NameOn(accepted[i])]]

\* The record at i is the first of its residue.
IsFirst(recs, i) ==
  \A m \in 1..(i - 1) :
    ~(recs[m].chain = recs[i].chain /\ recs[m].number = recs[i].number)

\* The first record of the residue of the record at i.
FirstOf(recs, i) ==
  recs[CHOOSE m \in 1..i :
         /\ recs[m].chain = recs[i].chain
         /\ recs[m].number = recs[i].number
         /\ IsFirst(recs, m)]

\* Every residue named by an accepted line has one entry, with the name of
\* the first line that names it.
FirstWins(recs) ==
  \A i \in 1..Len(recs) :
    /\ HasKey(sequences, recs[i].chain)
    /\ LET records == Get(sequences, recs[i].chain)
           entries == {j \in 1..Len(records) : records[j][1] = recs[i].number}
       IN  /\ Cardinality(entries) = 1
           /\ \A j \in entries : records[j][2] = FirstOf(recs, i).name

\* The first records of the residues of a chain, in file order.
FirstRecords(recs, chain_id) ==
  LET firsts == {i \in 1..Len(recs) : recs[i].chain = chain_id /\ IsFirst(recs, i)}
  IN  [k \in 1..Cardinality(firsts) |->
         LET i == CHOOSE i \in firsts : Cardinality({m \in firsts : m <= i}) = k
         IN  <<recs[i].number, recs[i].name>>]

SkipWarnings == SelectSeq(stderr, LAMBDA m : m.kind = "skipped")

\* C4: a malformed ATOM line is skipped with a warning and changes nothing
\* else: the returned Document is the Document of the file without its
\* malformed lines, and while no read error occurs extraction goes on and
\* returns a Document.
C4_MalformedSkipped ==
  /\ pc \in {"reading", "parsed"} =>
       /\ Len(SkipWarnings) = Cardinality(MalformedAt)
       /\ \A k \in 1..Len(SkipWarnings) :
            \E i \in MalformedAt :
              /\ Cardinality({m \in MalformedAt : m <= i}) = k
              /\ SkipWarnings[k].text = Strip(consumed[i])
  /\ (pc = "parsed" /\ Returned) => Document = parse_pdb_sequence(WithoutMalformed)
  /\ (pc # "main" /\ \A i \in 1..Len(stderr) :
          stderr[i].kind \notin {"not_found", "read_error"})
       => (pc = "reading" \/ Returned)

\* Two malformed lines around a well-formed one.
C4_Witness ==
  /\ Returned
  /\ consumed = <<Line_ALA_C_1A, Line_ALA_A_5, Line_short>>
  /\ Document = << <<<<"A">>, << <<5, ALA>> >> >> >>
  /\ Len(SkipWarnings) = 2

\* C10: after each line the two working dicts agree: the same chains, each
\* seen set the set of the numbers of the chain's list, as many entries as
\* numbers, and no chain with an empty list.
C10_WorkingMapsAgree ==
  pc = "reading" =>
    /\ {sequences[i][1] : i \in 1..Len(sequences)}
         = {seen_residues[i][1] : i \in 1..Len(seen_residues)}
    /\ \A i \in 1..Len(sequences) :
         /\ HasKey(seen_residues, sequences[i][1])
         /\ Get(seen_residues, sequences[i][1]) = Numbers(sequences[i][2])
         /\ Len(sequences[i][2]) = Cardinality(Get(seen_residues, sequences[i][1]))
         /\ sequences[i][2] # <<>>

\* An accepted line, a duplicate of it and a malformed line have been read.
C10_Witness ==
  /\ pc = "reading"
  /\ consumed = <<Line_ALA_A_5, Line_UNK_A_5, Line_ALA_C_empty>>
  /\ sequences = << <<<<"A">>, << <<5, ALA>> >> >> >>
  /\ seen_residues = << <<<<"A">>, {5}>> >>

\* format_sequence has returned to main.
Formatted == pc = "formatted" /\ "format_sequence" \in called

\* The residues of the Document, each with its chain.
DocumentResidues ==
  UNION {{[chain |-> Document[i][1], number |-> Document[i][2][j][1],
           name |-> Document[i][2][j][2]] : j \in 1..Len(Document[i][2])}
         : i \in 1..Len(Document)}

\* q comes before r in chain-major order: the chain identifiers by character
\* code, then the sequence numbers.
Before(q, r) ==
  \/ Ord(q.chain[1]) < Ord(r.chain[1])
  \/ q.chain = r.chain /\ q.number < r.number

\* The residue names of a set of residues in chain-major order.
NamesInOrder(residues) ==
  [k \in 1..Cardinality(residues) |->
     (CHOOSE r \in residues :
        Cardinality({q \in residues : Before(q, r)}) = k - 1).name]

\* C5: format_sequence emits the residues in chain-major order, chains by
\* character code and residues by sequence number, whatever the order of
\* the lines in the file: the output is the output for the residue names
\* taken in that order.
C5_ChainMajorOrder ==
  Formatted =>
    formatted_output =
      JoinStyle(FormattedResidues(NamesInOrder(DocumentResidues), code_format),
                Separator(code_format), output_style)

\* Chain B read before chain A, residue 10 before residue 5: "AGS".
C5_Witness ==
  /\ Formatted
  /\ code_format = "one-letter" /\ output_style = "single-line"
  /\ consumed = <<Line_SER_B_1, Line_GLY_A_10, Line_ALA_A_5>>
  /\ formatted_output = <<"A", "G", "S">>

\* The separator the claim gives for the options.
SeparatorFor(format, style) ==
  IF style = "multi-line" THEN <<"\n">>
  ELSE IF format = "three-letter" THEN <<" ">> ELSE <<>>

RECURSIVE TokenStart(_, _, _)
\* How many characters precede token i when tokens of these lengths are
\* joined by a separator of length n.
TokenStart(lengths, n, i) ==
  IF i = 1 THEN 0 ELSE TokenStart(lengths, n, i - 1) + lengths[i - 1] + n

InTable(name) == \E k \in 1..Len(THREE_TO_ONE) : THREE_TO_ONE[k][1] = name

\* The letter the table gives a name, and X for any other name.
TableLetter(name) ==
  IF InTable(name)
  THEN THREE_TO_ONE[CHOOSE k \in 1..Len(THREE_TO_ONE) : THREE_TO_ONE[k][1] = name][2][1]
  ELSE "X"

\* The unknown-residue warnings printed so far.
UnknownWarnings == SelectSeq(stderr, LAMBDA m : m.kind = "unknown")

\* The elements of a set of str in ascending order.
Ascending(strs) ==
  [k \in 1..Cardinality(strs) |->
     CHOOSE u \in strs : Cardinality({v \in strs : StrLess(v, u)}) = k - 1]

\* C7: in one-letter format a name of the table gives its letter and any
\* other name X; a call emits at most one unknown-residue warning, one
\* exactly when a name is outside the table, and it lists each such name
\* once, in sorted order; three-letter format emits none.
C7_OneLetterAndWarning ==
  Formatted =>
    LET names == FullSequenceList(Document)
        unknown == {names[i] : i \in {j \in 1..Len(names) : ~InTable(names[j])}}
    IN  /\ code_format = "one-letter" =>
             /\ \A i \in 1..Len(names) :
                  formatted_output[IF output_style = "single-line" THEN i ELSE 2 * i - 1]
                    = TableLetter(names[i])
             /\ Len(UnknownWarnings) = IF unknown = {} THEN 0 ELSE 1
             /\ unknown # {} =>
                  UnknownWarnings[1].text = Join(Ascending(unknown), <<",", " ">>)
        /\ code_format = "three-letter" => UnknownWarnings = <<>>

\* UNK on two residues and a blank name: "XXX" and one warning, ", UNK".
C7_Witness ==
  /\ Formatted
  /\ code_format = "one-letter" /\ output_style = "single-line"
  /\ consumed = <<Line_UNK_A_5, Line_UNK_blank_m3, Line_blank_a_2>>
  /\ formatted_output = <<"X", "X", "X">>
  /\ UnknownWarnings = <<Message("unknown", <<",", " ", "U", "N", "K">>, "")>>

\* write_output has returned True and main has ended.
WriteSucceeded ==
  /\ pc = "done"
  /\ stdout # <<>>
  /\ stdout[Len(stdout)].kind = "success"

\* C8: when the source is readable and the write succeeds, the target file
\* holds the Formatter's output for the Document and the options and one
\* newline behind it, nothing else; when no residue was extracted the
\* output is empty and the target file holds a single newline.
C8_TargetContent ==
  (WriteSucceeded /\ Returned) =>
    /\ target_file =
         File(TRUE, format_sequence(Document, code_format, output_style).result
                      \o <<"\n">>)
    /\ WellFormedAt = {} =>
         formatted_output = <<>> /\ target_file = File(TRUE, <<"\n">>)

\* A file of a HETATM line and a skipped ATOM line: the target is one newline.
C8_Witness ==
  /\ WriteSucceeded
  /\ consumed = <<Line_HETATM, Line_ALA_C_1A>>
  /\ target_file = File(TRUE, <<"\n">>)

\* An error message for the source file has been printed.
SourceError == \E i \in 1..Len(stderr) : stderr[i].kind \in {"not_found", "read_error"}

\* write_output has printed its error message.
WriteError == \E i \in 1..Len(stderr) : stderr[i].kind = "write_error"

\* C9: the stages are gated by failure.  A source that cannot be read ends
\* the run with an error message and exit code 1, the Formatter and the
\* Writer never called; a failing Writer ends it with 1; it ends with 0 only
\* when extraction and writing both succeeded.  Until the Writer is called
\* the target file is as it was.
C9_Gating ==
  /\ [](pc = "done" =>
          /\ sequences_data.is_none =>
               /\ SourceError
               /\ exit_code = 1
               /\ called = {"parse_pdb_sequence"}
          /\ WriteError => exit_code = 1
          /\ exit_code = 0 => (Returned /\ WriteSucceeded /\ ~WriteError))
  /\ [][("write_output" \notin called') => (target_file' = target_file)]_vars

\* The source file is missing: exit code 1 and the old target untouched.
C9_Witness ==
  /\ pc = "done"
  /\ sequences_data.is_none
  /\ exit_code = 1
  /\ target_file = OldTarget
  /\ stderr = <<Message("not_found", <<>>, "")>>

====
